---- MODULE Spec2Model ----
(***************************************************************************)
(* Connection state machine of leptos-rainbowkit                           *)
(* (crates/leptos-rainbowkit/src/state/connection.rs).                     *)
(*                                                                         *)
(* The program runs on the browser's single-threaded event loop: a         *)
(* handler or the code of an async fn between two awaits runs to           *)
(* completion, and other handlers run at the awaits.  One action is one    *)
(* such run.                                                               *)
(***************************************************************************)
EXTENDS Integers, Sequences, FiniteSets, Bags, TLC

(* ---------------------------- bounds ----------------------------------- *)

\* number of connect() futures that may exist at the same time
MaxTasks == 2
\* cap on the number of setup_event_listeners() runs (subscription sets)
MaxListeners == 2
\* width of an Address in bytes; alloy's Address has 20, the parsing below
\* depends on the width only through this definition
AddressBytes == 2

(* ------------------------ characters and strings ----------------------- *)
\* A string is a sequence of one-character strings.

HexLower == <<"0","1","2","3","4","5","6","7","8","9","a","b","c","d","e","f">>
HexUpper == <<"0","1","2","3","4","5","6","7","8","9","A","B","C","D","E","F">>

IsHexDigit(c) == \E i \in 1..16 : HexLower[i] = c \/ HexUpper[i] = c

HexValue(c) == (CHOOSE i \in 1..16 : HexLower[i] = c \/ HexUpper[i] = c) - 1

ToLowerHex(c) == HexLower[HexValue(c) + 1]

\* u64::MAX is sixteen hex digits f
U64HexDigits == 16

RECURSIVE Rep(_, _)
Rep(c, n) == IF n = 0 THEN <<>> ELSE <<c>> \o Rep(c, n - 1)

(* Option<T>: None is the empty sequence, Some(v) the one-element one.     *)
None == <<>>
Some(v) == <<v>>
Unwrap(o) == o[1]

(* ------------------------------ JsValue -------------------------------- *)
\* t: "str" (v a string), "arr" (v a sequence of JsValues),
\*    "obj" (v the value of its chainId property, <<>> when it has none),
\*    "undef" (undefined / null / number: anything else).
JsStr(s) == [t |-> "str", v |-> s]
JsArr(a) == [t |-> "arr", v |-> a]
JsObj(chainId) == [t |-> "obj", v |-> chainId]
JsUndef == [t |-> "undef", v |-> <<>>]

\* JsValue::as_string
as_string(js) == IF js.t = "str" THEN Some(js.v) ELSE None

(* ------------------------------ parsing -------------------------------- *)

\* str::trim_start_matches("0x"): removes the prefix repeatedly
RECURSIVE trim_start_matches_0x(_)
trim_start_matches_0x(s) ==
    IF Len(s) >= 2 /\ s[1] = "0" /\ s[2] = "x"
    THEN trim_start_matches_0x(SubSeq(s, 3, Len(s)))
    ELSE s

RECURSIVE HexDigitsValue(_, _)
HexDigitsValue(s, acc) ==
    IF s = <<>> THEN acc
    ELSE HexDigitsValue(Tail(s), acc * 16 + HexValue(Head(s)))

RECURSIVE StripZeros(_)
StripZeros(s) == IF s # <<>> /\ Head(s) = "0" THEN StripZeros(Tail(s)) ELSE s

\* u64::from_str_radix(s, 16): Ok(n) is Some(n), Err is None.
\* One leading "+" is accepted; the empty string, a lone sign, a non-hex
\* digit and a value above u64::MAX (more than sixteen significant digits)
\* are errors.
from_str_radix_16(s) ==
    LET digits == IF Len(s) >= 1 /\ s[1] = "+" THEN Tail(s) ELSE s IN
    IF digits = <<>> THEN None
    ELSE IF \E i \in 1..Len(digits) : ~IsHexDigit(digits[i]) THEN None
    ELSE IF Len(StripZeros(digits)) > U64HexDigits THEN None
    ELSE Some(HexDigitsValue(digits, 0))

\* chain id of a JsValue holding a hex string, as the chainChanged handler,
\* the connect handler and get_current_chain_id all compute it
ParseChainIdHex(js) ==
    IF as_string(js) = None THEN None
    ELSE from_str_radix_16(trim_start_matches_0x(Unwrap(as_string(js))))

AddressHexLen == 2 * AddressBytes

\* str::parse::<Address>: an optional "0x", then exactly AddressHexLen hex digits of
\* either case; the value is the bytes, written here in lower case.
ParseAddress(s) ==
    LET body == IF Len(s) >= 2 /\ s[1] = "0" /\ s[2] = "x"
                THEN SubSeq(s, 3, Len(s)) ELSE s IN
    IF Len(body) # AddressHexLen THEN None
    ELSE IF \E i \in 1..Len(body) : ~IsHexDigit(body[i]) THEN None
    ELSE Some([i \in 1..AddressHexLen |-> ToLowerHex(body[i])])

\* str::parse::<reqwest::Url>: a URL string is a sequence of tokens; it
\* parses when it is an absolute URL, scheme "://" host.
ParseUrl(u) ==
    IF Len(u) >= 3 /\ u[2] = "://" /\ u[1] # "" /\ u[3] # "" THEN Some(u) ELSE None

(* ------------------------------ inputs --------------------------------- *)

AddrA == Rep("a", AddressHexLen)
AddrB == Rep("b", AddressHexLen)
\* the address a connector's connect() returns; AddrB reaches the program
\* through accountsChanged only
Addresses == {AddrA}

\* entries of an accountsChanged array
EntryA == JsStr(<<"0","x">> \o AddrA)                                \* "0xaa..": AddrA
EntryB == JsStr(Rep("B", AddressHexLen))                             \* "BB..": AddrB, no prefix, upper case
EntryShort == JsStr(<<"0","x">> \o Rep("a", AddressHexLen - 1))      \* one digit short
EntryNotHex == JsStr(<<"0","x","g">> \o Rep("a", AddressHexLen - 1)) \* not hex

\* payloads of the accountsChanged event
AccountsPayloads ==
    { JsArr(<<>>), JsArr(<<EntryA>>), JsArr(<<EntryB, EntryShort>>),
      JsArr(<<EntryShort, EntryB>>), JsArr(<<EntryNotHex, EntryA>>), JsArr(<<JsUndef, EntryA>>),
      JsUndef }

\* chain id values in wallet events (chainChanged payload, chainId property
\* of the connect payload)
ChainIdValues ==
    { JsStr(<<"0","x","1">>),          \* 1
      JsStr(<<"2">>),                  \* 2, no prefix
      JsStr(<<"0","x","g">>),          \* not hex
      JsUndef }                        \* not a string

\* values the eth_chainId promise resolves to
ChainIdReplies ==
    ChainIdValues \cup
    { JsStr(<<"0","x","0","x","3">>),  \* 3, the prefix is trimmed twice
      JsStr(<<"0","x","1","0">>),      \* 16
      JsStr(<<"0","x">>) }             \* nothing after the prefix

\* payloads of the connect event
ConnectInfoPayloads == {JsObj(c) : c \in ChainIdValues} \cup {JsUndef}

\* WalletMetadata.id of the connectors an application may pass to connect()
Connectors == {"metamask", "other"}

\* the consumer's chain id -> RPC URL map given to ConnectionState::new:
\* chains 1 and 2 have a URL, chain 3 has one that does not parse, chain 16
\* has none
transports ==
    (1 :> <<"https", "://", "rpc.one">>) @@
    (2 :> <<"https", "://", "rpc.two">>) @@
    (3 :> <<"rpc.three">>)

(* ------------------------------- state --------------------------------- *)

VARIABLES
    status,        \* ConnectionState.status
    address,       \* ConnectionState.address       : Option<Address>
    chain_id,      \* ConnectionState.chain_id      : Option<u64>
    connector_id,  \* ConnectionState.connector_id  : Option<String>
    provider,      \* ConnectionState.provider      : Option<WalletProvider>
    listeners,     \* how many times setup_event_listeners has subscribed
    connects,      \* the connect() futures suspended at an await (a bag)
    last           \* the step taken last: what ran, the payload of an event,
                   \* how connect() went on ("pending" at an await, else its
                   \* result), the status before

\* the request bridge and the signer (alloy-eip1193, and the transport of
\* leptos-rainbowkit)
VARIABLES
    calls,         \* the bridge and signer futures awaiting the provider's promise (a bag)
    bridge_last    \* the bridge step taken last: the call, what was passed to
                   \* the provider, what the provider answered, what the caller got

bridge_vars == <<calls, bridge_last>>

\* the pure functions of the crates, and the wallet behind the connector
VARIABLES
    applied,       \* the pure function applied last: its name, its inputs, what it returned
    active_account \* the account the wallet has selected

rest_vars == <<applied, active_account>>

vars == <<status, address, chain_id, connector_id, provider, listeners, connects, last,
          calls, bridge_last, applied, active_account>>

Disconnected == "Disconnected"
Connecting == "Connecting"
Connected == "Connected"
ConnectionStatus == {Disconnected, Connecting, Connected}

\* the five signals as one record
Snapshot ==
    [status |-> status, address |-> address, chain_id |-> chain_id,
     connector_id |-> connector_id, provider |-> provider]

\* the provider connect() builds: the HTTP transport of rpc_url with the
\* wallet signer bound to the address
WalletProvider(signer_address, rpc_url) == [signer |-> signer_address, url |-> rpc_url]

\* a connect() future suspended at `pc`, with its locals
Future(pc, c, a) == [pc |-> pc, connector |-> c, address |-> a]

InFlight == BagCardinality(connects)

\* no bridge step taken yet
NoReply == [step |-> "none"]

\* no pure function applied yet
NotApplied == [fn |-> "none"]

\* ConnectionState::new
Init ==
    /\ status = Disconnected
    /\ address = None
    /\ chain_id = None
    /\ connector_id = None
    /\ provider = None
    /\ listeners = 0
    /\ connects = EmptyBag
    /\ last = [op |-> "new", arg |-> JsUndef, res |-> "", from |-> Disconnected]
    /\ calls = EmptyBag
    /\ bridge_last = NoReply
    /\ applied = NotApplied
    /\ active_account = AddrA

\* assign the five signals from a snapshot record
Publish(snap) ==
    /\ status' = snap.status
    /\ address' = snap.address
    /\ chain_id' = snap.chain_id
    /\ connector_id' = snap.connector_id
    /\ provider' = snap.provider

Record(op, arg, res) ==
    last' = [op |-> op, arg |-> arg, res |-> res, from |-> status]

(* ------------------------------ connect() ------------------------------ *)

\* connect(), from the call to the first await: the two early returns, then
\* status.set(Connecting).  The result is the snapshot and how the future
\* goes on: "ErrInProgress" and "OkAlready" return, "pending" awaits
\* connector.connect().

\* the connector a connect() call was given, as kept in `last`
ConnectorArg(c) == [t |-> "connector", v |-> c]

\* connect() without the early return while Connecting
ConnectEntry_NoInProgressGuard(snap, c) ==
    IF snap.status = Connected /\ snap.connector_id = Some(c)
    THEN [snap |-> snap, res |-> "OkAlready"]
    ELSE [snap |-> [snap EXCEPT !.status = Connecting], res |-> "pending"]

\* connect() without the early return for the connector already connected
ConnectEntry_NoSameConnectorGuard(snap, c) ==
    IF snap.status = Connecting
    THEN [snap |-> snap, res |-> "ErrInProgress"]
    ELSE [snap |-> [snap EXCEPT !.status = Connecting], res |-> "pending"]

\* connect(), from the call to the first await
ConnectEntry(snap, c) ==
    IF snap.status = Connecting
    THEN [snap |-> snap, res |-> "ErrInProgress"]
    ELSE IF snap.status = Connected /\ snap.connector_id = Some(c)
    THEN [snap |-> snap, res |-> "OkAlready"]
    ELSE [snap |-> [snap EXCEPT !.status = Connecting], res |-> "pending"]

ConnectBegin(c) ==
    /\ InFlight < MaxTasks
    /\ LET r == ConnectEntry(Snapshot, c) IN
       /\ Publish(r.snap)
       /\ connects' = IF r.res = "pending"
                      THEN connects (+) SetToBag({Future("awaitConnector", c, None)})
                      ELSE connects
       /\ Record("connect", ConnectorArg(c), r.res)
    /\ UNCHANGED <<listeners, bridge_vars, rest_vars>>

\* the Err(e) arm of the match on connector.connect()
ConnectorFailed(snap) == [snap EXCEPT !.status = Disconnected, !.provider = None]

\* connect(), resumed when connector.connect() resolves, up to the await in
\* get_current_chain_id.  outcome is Err or Ok(address); handle is what
\* connector.get_provider() returns: "none", an object whose request cannot
\* be called or returns no promise ("broken"), or a wallet object ("wallet").
ConnectAfterConnector(f, outcome, handle) ==
    /\ BagIn(f, connects)
    /\ f.pc = "awaitConnector"
    /\ IF outcome = None
       THEN /\ Publish(ConnectorFailed(Snapshot))
            /\ connects' = connects (-) SetToBag({f})
            /\ Record("connect", JsUndef, "ErrConnector")
       ELSE IF handle = "none"
       THEN /\ Publish(Snapshot)
            /\ connects' = connects (-) SetToBag({f})
            /\ Record("connect", JsUndef, "ErrNoProvider")
       ELSE IF handle = "broken"
       THEN /\ Publish(Snapshot)
            /\ connects' = connects (-) SetToBag({f})
            /\ Record("connect", JsUndef, "ErrChainId")
       ELSE /\ Publish(Snapshot)
            /\ connects' = (connects (-) SetToBag({f}))
                             (+) SetToBag({Future("awaitChainId", f.connector, outcome)})
            /\ Record("connect", JsUndef, "pending")
    /\ UNCHANGED <<listeners, bridge_vars, rest_vars>>

\* get_current_chain_id after its await, and the lookups that follow it in
\* connect(): the chain id, or the error that `?` returns
ResolveRpc(reply) ==
    IF reply = None THEN [res |-> "ErrChainId"]                       \* promise rejected
    ELSE IF ParseChainIdHex(Unwrap(reply)) = None THEN [res |-> "ErrChainId"]
    ELSE LET chain == Unwrap(ParseChainIdHex(Unwrap(reply))) IN
         IF chain \notin DOMAIN transports THEN [res |-> "ErrNoRpcUrl"]
         ELSE IF ParseUrl(transports[chain]) = None THEN [res |-> "ErrInvalidUrl"]
         ELSE [res |-> "Ok", chain_id |-> chain, url |-> Unwrap(ParseUrl(transports[chain]))]

\* the "Update all state" block of connect()
ConnectSucceeded(snap, c, a, chain, url) ==
    [status |-> Connected, address |-> Some(a), chain_id |-> Some(chain),
     connector_id |-> Some(c), provider |-> Some(WalletProvider(a, url))]

\* connect(), resumed when the eth_chainId promise settles, to its return.
\* reply is None for a rejected promise, Some(value) for a resolved one.
ConnectAfterChainId(f, reply) ==
    /\ BagIn(f, connects)
    /\ f.pc = "awaitChainId"
    /\ LET r == ResolveRpc(reply) IN
       /\ r.res = "Ok" => listeners < MaxListeners
       /\ IF r.res = "Ok"
          THEN /\ listeners' = listeners + 1
               /\ Publish(ConnectSucceeded(Snapshot, f.connector,
                                           Unwrap(f.address), r.chain_id, r.url))
          ELSE /\ listeners' = listeners
               /\ Publish(Snapshot)
       /\ Record("connect", JsUndef, r.res)
    /\ connects' = connects (-) SetToBag({f})
    /\ UNCHANGED <<bridge_vars, rest_vars>>

(* ----------------------------- disconnect() ---------------------------- *)

DisconnectEffect(snap) ==
    [status |-> Disconnected, address |-> None, chain_id |-> None,
     connector_id |-> None, provider |-> None]

Disconnect ==
    /\ Publish(DisconnectEffect(Snapshot))
    /\ Record("disconnect", JsUndef, "Ok")
    /\ UNCHANGED <<listeners, connects, bridge_vars, rest_vars>>

(* ---------------------------- wallet events ---------------------------- *)
\* Each closure subscribed by setup_event_listeners, as the snapshot it
\* leaves.  The closures are never unsubscribed: the wallet can call them
\* whenever setup_event_listeners has run at least once.

\* accountsChanged closure without the status guard at its top
AccountsChangedHandler_NoGuard(snap, accounts) ==
    IF accounts.t # "arr" THEN snap
    ELSE IF Len(accounts.v) > 0
    THEN IF as_string(accounts.v[1]) = None THEN snap
         ELSE IF ParseAddress(Unwrap(as_string(accounts.v[1]))) = None THEN snap
         ELSE [snap EXCEPT !.address = ParseAddress(Unwrap(as_string(accounts.v[1])))]
    ELSE [snap EXCEPT !.address = None, !.status = Disconnected]

\* accountsChanged closure that forgets status_signal.set on an empty array
AccountsChangedHandler_KeepsStatus(snap, accounts) ==
    IF snap.status = Disconnected THEN snap
    ELSE IF accounts.t # "arr" THEN snap
    ELSE IF Len(accounts.v) > 0
    THEN IF as_string(accounts.v[1]) = None THEN snap
         ELSE IF ParseAddress(Unwrap(as_string(accounts.v[1]))) = None THEN snap
         ELSE [snap EXCEPT !.address = ParseAddress(Unwrap(as_string(accounts.v[1])))]
    ELSE [snap EXCEPT !.address = None]

\* accountsChanged closure that reads the last entry of the array
AccountsChangedHandler_LastEntry(snap, accounts) ==
    IF snap.status = Disconnected THEN snap
    ELSE IF accounts.t # "arr" THEN snap
    ELSE IF Len(accounts.v) > 0
    THEN LET e == accounts.v[Len(accounts.v)] IN
         IF as_string(e) = None THEN snap
         ELSE IF ParseAddress(Unwrap(as_string(e))) = None THEN snap
         ELSE [snap EXCEPT !.address = ParseAddress(Unwrap(as_string(e)))]
    ELSE [snap EXCEPT !.address = None, !.status = Disconnected]

\* accountsChanged closure that clears the address when the first entry
\* does not parse
AccountsChangedHandler_ClearsOnBadEntry(snap, accounts) ==
    IF snap.status = Disconnected THEN snap
    ELSE IF accounts.t # "arr" THEN snap
    ELSE IF Len(accounts.v) > 0
    THEN IF as_string(accounts.v[1]) = None THEN [snap EXCEPT !.address = None]
         ELSE [snap EXCEPT !.address = ParseAddress(Unwrap(as_string(accounts.v[1])))]
    ELSE [snap EXCEPT !.address = None, !.status = Disconnected]

\* accountsChanged closure
AccountsChangedHandler(snap, accounts) ==
    IF snap.status = Disconnected THEN snap
    ELSE IF accounts.t # "arr" THEN snap
    ELSE IF Len(accounts.v) > 0
    THEN IF as_string(accounts.v[1]) = None THEN snap
         ELSE IF ParseAddress(Unwrap(as_string(accounts.v[1]))) = None THEN snap
         ELSE [snap EXCEPT !.address = ParseAddress(Unwrap(as_string(accounts.v[1])))]
    ELSE [snap EXCEPT !.address = None, !.status = Disconnected]

\* chainChanged closure that also forgets the address
ChainChangedHandler_ClearsAddress(snap, chain_id_hex) ==
    IF snap.status = Disconnected THEN snap
    ELSE IF ParseChainIdHex(chain_id_hex) = None THEN snap
    ELSE [snap EXCEPT !.chain_id = ParseChainIdHex(chain_id_hex), !.address = None]

\* chainChanged closure
ChainChangedHandler(snap, chain_id_hex) ==
    IF snap.status = Disconnected THEN snap
    ELSE IF ParseChainIdHex(chain_id_hex) = None THEN snap
    ELSE [snap EXCEPT !.chain_id = ParseChainIdHex(chain_id_hex)]

\* disconnect closure that leaves the provider in place
DisconnectHandler_KeepsProvider(snap) ==
    IF snap.status = Disconnected THEN snap
    ELSE [status |-> Disconnected, address |-> None, chain_id |-> None,
          connector_id |-> None, provider |-> snap.provider]

\* disconnect closure
DisconnectHandler(snap) ==
    IF snap.status = Disconnected THEN snap
    ELSE [status |-> Disconnected, address |-> None, chain_id |-> None,
          connector_id |-> None, provider |-> None]

\* connect closure that also sets status to Connected
ConnectHandler_SetsConnected(snap, connect_info) ==
    IF snap.status = Connected THEN snap
    ELSE IF connect_info.t # "obj" THEN snap
    ELSE IF ParseChainIdHex(connect_info.v) = None THEN snap
    ELSE [snap EXCEPT !.chain_id = ParseChainIdHex(connect_info.v), !.status = Connected]

\* connect closure: Reflect::get fails on a payload that is not an object
\* and gives undefined for an object without chainId
ConnectHandler(snap, connect_info) ==
    IF snap.status = Connected THEN snap
    ELSE IF connect_info.t # "obj" THEN snap
    ELSE IF ParseChainIdHex(connect_info.v) = None THEN snap
    ELSE [snap EXCEPT !.chain_id = ParseChainIdHex(connect_info.v)]

OnAccountsChanged(accounts) ==
    /\ listeners > 0
    /\ Publish(AccountsChangedHandler(Snapshot, accounts))
    /\ Record("accountsChanged", accounts, "")
    /\ UNCHANGED <<listeners, connects, bridge_vars, rest_vars>>

OnChainChanged(chain_id_hex) ==
    /\ listeners > 0
    /\ Publish(ChainChangedHandler(Snapshot, chain_id_hex))
    /\ Record("chainChanged", chain_id_hex, "")
    /\ UNCHANGED <<listeners, connects, bridge_vars, rest_vars>>

OnDisconnect ==
    /\ listeners > 0
    /\ Publish(DisconnectHandler(Snapshot))
    /\ Record("disconnectEvent", JsUndef, "")
    /\ UNCHANGED <<listeners, connects, bridge_vars, rest_vars>>

OnConnect(connect_info) ==
    /\ listeners > 0
    /\ Publish(ConnectHandler(Snapshot, connect_info))
    /\ Record("connectEvent", connect_info, "")
    /\ UNCHANGED <<listeners, connects, bridge_vars, rest_vars>>

(* --------------------------- specification ----------------------------- *)

Next ==
    \/ \E c \in Connectors : ConnectBegin(c)
    \/ \E f \in BagToSet(connects), outcome \in {None} \cup {Some(a) : a \in Addresses},
          handle \in {"none", "broken", "wallet"} : ConnectAfterConnector(f, outcome, handle)
    \/ \E f \in BagToSet(connects), reply \in {None} \cup {Some(v) : v \in ChainIdReplies} :
          ConnectAfterChainId(f, reply)
    \/ Disconnect
    \/ \E accounts \in AccountsPayloads : OnAccountsChanged(accounts)
    \/ \E chain_id_hex \in ChainIdValues : OnChainChanged(chain_id_hex)
    \/ OnDisconnect
    \/ \E connect_info \in ConnectInfoPayloads : OnConnect(connect_info)

Spec == Init /\ [][Next]_vars

(* ------------------------------ properties ----------------------------- *)

\* results of a connect() that had set status to Connecting and then failed
FailedAfterConnecting ==
    {"ErrConnector", "ErrNoProvider", "ErrChainId", "ErrNoRpcUrl", "ErrInvalidUrl"}

\* last step was a connect() future running to its return
Returned == last.op = "connect" /\ last.res # "pending"

SnapshotEmpty ==
    address = None /\ chain_id = None /\ connector_id = None /\ provider = None

SnapshotUnchanged == UNCHANGED <<status, address, chain_id, connector_id, provider>>

\* C1: a connect() that set status to Connecting and then failed, for
\* whatever reason, has left status Disconnected when it returns.
C1_FailedConnectIsDisconnected ==
    (Returned /\ last.res \in FailedAfterConnecting) => status = Disconnected

\* C2: at no time are two connect() futures past the in-progress guard and
\* not yet returned.
C2_AtMostOneConnectInFlight == InFlight <= 1

ValidTransitions ==
    { <<Disconnected, Connecting>>, <<Connecting, Connected>>,
      <<Connecting, Disconnected>>, <<Connected, Disconnected>> }

\* C3: every change of status is Disconnected->Connecting,
\* Connecting->Connected, Connecting->Disconnected or Connected->Disconnected.
C3_OnlyValidTransitions ==
    status # last.from => <<last.from, status>> \in ValidTransitions

\* C4: a wallet event (accountsChanged, chainChanged, disconnect, connect)
\* delivered while status is Disconnected leaves status Disconnected, so
\* after disconnect() no sequence of events brings the status back.
C4_EventsKeepDisconnected ==
    (last.op \in {"accountsChanged", "chainChanged", "disconnectEvent", "connectEvent"}
        /\ last.from = Disconnected) => status = Disconnected

\* C4 case: the connect event was processed (it set a chain id) while the
\* status was Disconnected and no connect() was running
C4_Witness ==
    /\ last.op = "connectEvent" /\ last.from = Disconnected
    /\ chain_id # None /\ address = None /\ InFlight = 0

\* C5: the connect event fired while status is Disconnected leaves the five
\* signals as they were.
C5_ConnectEventGuarded ==
    [][(last'.op = "connectEvent" /\ status = Disconnected) => SnapshotUnchanged]_vars

\* C6: accountsChanged and chainChanged fired while status is Disconnected
\* leave status, address, chain_id, connector_id and provider as they were,
\* for every payload.
C6_GuardedEventsChangeNothing ==
    [][(last'.op \in {"accountsChanged", "chainChanged"} /\ status = Disconnected)
          => SnapshotUnchanged]_vars

\* C6 case: accountsChanged naming an address was delivered while Disconnected
C6_Witness ==
    /\ last.op = "accountsChanged" /\ last.from = Disconnected
    /\ last.arg = JsArr(<<EntryA>>)

\* C7: whenever status is Connected, address, chain_id, connector_id and
\* provider are all present.
C7_ConnectedIsComplete ==
    status = Connected =>
        (address # None /\ chain_id # None /\ connector_id # None /\ provider # None)

\* C7 case: Connected, after an event handler has written to the snapshot
C7_Witness ==
    status = Connected /\ last.op \in {"accountsChanged", "chainChanged"}

\* C8: a connect() whose connector failed returns with status Disconnected
\* and with address, chain_id, connector_id and provider all empty.
C8_ConnectorFailureClearsSnapshot ==
    (Returned /\ last.res = "ErrConnector") => (status = Disconnected /\ SnapshotEmpty)

\* C9: accountsChanged with an empty array, received while not Disconnected,
\* leaves status Disconnected and the whole snapshot empty.
C9_EmptyAccountsClearsSnapshot ==
    (last.op = "accountsChanged" /\ last.arg = JsArr(<<>>) /\ last.from # Disconnected)
        => (status = Disconnected /\ SnapshotEmpty)

\* the address an accountsChanged array names: its first entry
FirstAccount(accounts) == ParseAddress(Unwrap(as_string(accounts.v[1])))

\* arrays whose first entry is an address
WellFormedAccounts ==
    {p \in AccountsPayloads : p.t = "arr" /\ Len(p.v) > 0 /\ as_string(p.v[1]) # None
                              /\ FirstAccount(p) # None}

\* C10: a connect() that succeeds leaves status Connected and address the
\* one its connector returned; accountsChanged received while not
\* Disconnected with a non-empty array of addresses sets address to the
\* first entry and keeps the status; accountsChanged with an empty array
\* sets status Disconnected and address empty.
C10_ConnectThenAccountsChanged ==
    [][ /\ (last'.op = "connect" /\ last'.res = "Ok")
              => /\ status' = Connected
                 /\ \E f \in BagToSet(connects) :
                       /\ connects' = connects (-) SetToBag({f})
                       /\ address' = f.address
        /\ (last'.op = "accountsChanged" /\ status # Disconnected)
              => /\ last'.arg \in WellFormedAccounts
                       => (address' = FirstAccount(last'.arg) /\ status' = status)
                 /\ last'.arg = JsArr(<<>>)
                       => (status' = Disconnected /\ address' = None)
      ]_vars

\* C10 case: connected with one address as signer, then accountsChanged
\* named another one
C10_Witness ==
    /\ last.op = "accountsChanged" /\ last.from = Connected /\ status = Connected
    /\ last.arg = JsArr(<<EntryB, EntryShort>>)
    /\ provider # None /\ Unwrap(provider).signer = AddrA

\* C11: disconnect() in any state, and the wallet's disconnect event in any
\* state but Disconnected, end with status Disconnected and address, chain
\* id, connector id and provider all empty; disconnect() called a second
\* time, and the disconnect event while Disconnected, change nothing.
C11_DisconnectClearsAndIsIdempotent ==
    [][ /\ (last'.op = "disconnect" \/ (last'.op = "disconnectEvent" /\ status # Disconnected))
            => (status' = Disconnected /\ address' = None /\ chain_id' = None
                /\ connector_id' = None /\ provider' = None)
        /\ (last'.op = "disconnect" /\ last.op = "disconnect") => SnapshotUnchanged
        /\ (last'.op = "disconnectEvent" /\ status = Disconnected) => SnapshotUnchanged
      ]_vars

\* the disconnect event has ended a session, and a second one arrives
C11_Witness ==
    /\ last.op = "disconnectEvent" /\ last.from = Connected
    /\ status = Disconnected /\ SnapshotEmpty
    /\ listeners > 0

\* a step that is a call of connect(), not the resumption of one
ConnectCalled == last'.op = "connect" /\ last'.arg.t = "connector"

\* C12: connect() while status is Connecting returns the "connection in
\* progress" error at once: no connector is invoked (no future is created)
\* and status, address, chain id, connector id and provider are unchanged.
C12_ConnectWhileConnectingFails ==
    [][(ConnectCalled /\ status = Connecting)
         => (last'.res = "ErrInProgress" /\ SnapshotUnchanged
             /\ UNCHANGED <<connects, listeners>>)]_vars

C12_Witness ==
    /\ last.op = "connect" /\ last.arg.t = "connector" /\ last.res = "ErrInProgress"
    /\ status = Connecting /\ InFlight = 1

\* C13: connect(connector) while Connected with connector_id equal to the
\* connector's id returns success: the connector is not invoked, no event
\* subscription is installed, and no signal changes.
C13_ConnectSameConnectorIsNoOp ==
    [][(ConnectCalled /\ status = Connected /\ connector_id = Some(last'.arg.v))
         => (last'.res = "OkAlready" /\ SnapshotUnchanged
             /\ UNCHANGED <<connects, listeners>>)]_vars

C13_Witness ==
    /\ last.op = "connect" /\ last.arg.t = "connector" /\ last.res = "OkAlready"
    /\ status = Connected /\ connector_id = Some(last.arg.v)
    /\ listeners = 1 /\ InFlight = 0

\* C14: the chainChanged and connect events can change only the chain id:
\* in every state and for every payload status, address, connector id and
\* provider are unchanged (so the connect event never sets Connected).
C14_ChainEventsChangeOnlyChainId ==
    [][last'.op \in {"chainChanged", "connectEvent"}
         => UNCHANGED <<status, address, connector_id, provider>>]_vars

\* a chainChanged event has replaced the chain id of a session by one that
\* connect() cannot have set (chain 2 arrives in events without "0x" only,
\* and the session was made on another chain)
C14_Witness ==
    /\ last.op = "chainChanged" /\ last.arg = JsStr(<<"2">>)
    /\ status = Connected /\ chain_id = Some(2)
    /\ provider # None /\ Unwrap(provider).url = transports[1]

\* payloads of accountsChanged that do not parse: not an array, or a first
\* entry that is not a string or not an address
MalformedAccounts ==
    {p \in AccountsPayloads :
        \/ p.t # "arr"
        \/ /\ Len(p.v) > 0
           /\ (as_string(p.v[1]) = None \/ FirstAccount(p) = None)}

\* C15: an event whose payload does not parse (accountsChanged as above;
\* chainChanged or connect with a chain id that is not a string or not
\* hex) is dropped: all five signals are unchanged.
C15_UnparsableEventsAreDropped ==
    [][ \/ (last'.op = "accountsChanged" /\ last'.arg \in MalformedAccounts)
        \/ (last'.op = "chainChanged" /\ ParseChainIdHex(last'.arg) = None)
        \/ (last'.op = "connectEvent"
              /\ (last'.arg.t # "obj" \/ ParseChainIdHex(last'.arg.v) = None))
        => SnapshotUnchanged]_vars

C15_Witness ==
    /\ last.op = "accountsChanged" /\ last.from = Connected
    /\ last.arg = JsArr(<<EntryNotHex, EntryA>>)
    /\ status = Connected /\ address = Some(AddrA)

(* ====================== error taxonomy (error.rs) ====================== *)

\* a JavaScript number, and JsValue::as_f64
JsNum(n) == [t |-> "num", n |-> n]
as_f64(js) == IF js.t = "num" THEN Some(js.n) ELSE None

\* an object a provider rejects with: its code and message properties
\* (JsUndef for a property that is absent)
JsErrObj(code, message) == [t |-> "obj", code |-> code, message |-> message]

\* Eip1193Error
UserRejectedRequest == [e |-> "UserRejectedRequest"]
Unauthorized(message) == [e |-> "Unauthorized", message |-> message]
UnsupportedMethod(message) == [e |-> "UnsupportedMethod", message |-> message]
ProviderDisconnected == [e |-> "Disconnected"]
ChainDisconnected(chain) == [e |-> "ChainDisconnected", chain |-> chain]
UnrecognizedChain(chain) == [e |-> "UnrecognizedChain", chain |-> chain]
JsError(message) == [e |-> "JsError", message |-> message]
UnknownError(code, message) == [e |-> "UnknownError", code |-> code, message |-> message]
SerializationError(message) == [e |-> "SerializationError", message |-> message]

IsWhitespace(c) == c \in {" ", "\t", "\n"}

\* str::split_whitespace: the maximal runs of characters that are not
\* white space, in order
RECURSIVE SplitFrom(_, _, _)
SplitFrom(s, cur, acc) ==
    IF s = <<>> THEN (IF cur = <<>> THEN acc ELSE Append(acc, cur))
    ELSE IF IsWhitespace(Head(s))
    THEN SplitFrom(Tail(s), <<>>, IF cur = <<>> THEN acc ELSE Append(acc, cur))
    ELSE SplitFrom(Tail(s), Append(cur, Head(s)), acc)

split_whitespace(s) == SplitFrom(s, <<>>, <<>>)

IsAsciiDigit(c) == \E i \in 1..10 : HexLower[i] = c

RECURSIVE DecDigitsValue(_, _)
DecDigitsValue(s, acc) ==
    IF s = <<>> THEN acc
    ELSE DecDigitsValue(Tail(s), acc * 10 + HexValue(Head(s)))

\* u64::MAX in decimal
U64MaxDigits ==
    <<"1","8","4","4","6","7","4","4","0","7","3","7","0","9","5","5","1","6","1","5">>

\* a <= b for two digit strings of the same length
RECURSIVE DigitsLeq(_, _)
DigitsLeq(a, b) ==
    IF a = <<>> THEN TRUE
    ELSE IF Head(a) = Head(b) THEN DigitsLeq(Tail(a), Tail(b))
    ELSE HexValue(Head(a)) < HexValue(Head(b))

\* str::parse::<u64>: one leading "+" is accepted; the empty string, a lone
\* sign, a character that is not a digit and a value above u64::MAX are
\* errors
parse_u64(s) ==
    LET digits == IF Len(s) >= 1 /\ s[1] = "+" THEN Tail(s) ELSE s
        sig == StripZeros(digits) IN
    IF digits = <<>> THEN None
    ELSE IF \E i \in 1..Len(digits) : ~IsAsciiDigit(digits[i]) THEN None
    ELSE IF Len(sig) > Len(U64MaxDigits) THEN None
    ELSE IF Len(sig) = Len(U64MaxDigits) /\ ~DigitsLeq(sig, U64MaxDigits) THEN None
    ELSE Some(DecDigitsValue(digits, 0))

starts_with_0x(s) == Len(s) >= 2 /\ s[1] = "0" /\ s[2] = "x"

\* a 4902 arm that picks the last such token
FindChainToken_Last(tokens) ==
    LET hits == {i \in 1..Len(tokens) :
                    starts_with_0x(tokens[i])
                    \/ \A j \in 1..Len(tokens[i]) : IsAsciiDigit(tokens[i][j])} IN
    IF hits = {} THEN None
    ELSE Some(tokens[CHOOSE i \in hits : \A k \in hits : i >= k])

\* the token the 4902 arm picks: the first that starts with "0x" or is all
\* digits
FindChainToken(tokens) ==
    LET hits == {i \in 1..Len(tokens) :
                    starts_with_0x(tokens[i])
                    \/ \A j \in 1..Len(tokens[i]) : IsAsciiDigit(tokens[i][j])} IN
    IF hits = {} THEN None
    ELSE Some(tokens[CHOOSE i \in hits : \A k \in hits : i <= k])

\* Eip1193Error::from_code
from_code(code, message) ==
    CASE code = 4001 -> UserRejectedRequest
      [] code = 4100 -> Unauthorized(message)
      [] code = 4200 -> UnsupportedMethod(message)
      [] code = 4900 -> ProviderDisconnected
      [] code = 4901 ->
            LET tokens == split_whitespace(message) IN
            IF tokens = <<>> THEN ChainDisconnected(0)
            ELSE IF parse_u64(tokens[Len(tokens)]) = None THEN ChainDisconnected(0)
            ELSE ChainDisconnected(Unwrap(parse_u64(tokens[Len(tokens)])))
      [] code = 4902 ->
            LET found == FindChainToken(split_whitespace(message)) IN
            IF found = None THEN UnrecognizedChain(0)
            ELSE LET token == Unwrap(found)
                     n == IF starts_with_0x(token)
                          THEN from_str_radix_16(trim_start_matches_0x(token))
                          ELSE parse_u64(token) IN
                 IF n = None THEN UnrecognizedChain(0) ELSE UnrecognizedChain(Unwrap(n))
      [] OTHER -> UnknownError(code, message)

\* the message from_js_value uses when the object has no string message
UnknownErrorText == <<"U","n","k","n","o","w","n"," ","e","r","r","o","r">>

\* format!("{:?}", value): the debug text of a JsValue, a text that names
\* the value
DebugFormat(value) == <<"JsValue", value>>

\* Eip1193Error::from_js_value that never looks for a code
from_js_value_IgnoresCode(value) ==
    IF as_string(value) # None THEN JsError(Unwrap(as_string(value)))
    ELSE JsError(DebugFormat(value))

\* Eip1193Error::from_js_value.  The number of a code is cast with `as i32`;
\* the codes of the model are integers inside that range, which the cast
\* leaves as they are.
from_js_value(value) ==
    IF value.t = "obj" /\ as_f64(value.code) # None
    THEN from_code(Unwrap(as_f64(value.code)),
                   IF as_string(value.message) = None THEN UnknownErrorText
                   ELSE Unwrap(as_string(value.message)))
    ELSE IF as_string(value) # None THEN JsError(Unwrap(as_string(value)))
    ELSE JsError(DebugFormat(value))

\* Eip1193Error::into_transport_error, and TransportErrorKind::custom_str
into_transport_error(err) == [kind |-> "Custom", source |-> err]
custom_str(text) == [kind |-> "CustomStr", text |-> text]

(* ================= request bridge (transport.rs) ====================== *)

\* the most bridge and signer futures awaiting the provider at one time
MaxCalls == 2

conn_vars == <<status, address, chain_id, connector_id, provider, listeners, connects, last>>

JsNull == [t |-> "null", v |-> <<>>]

\* serde_json::Value::as_u64
as_u64(json) == IF json.t = "num" /\ json.n >= 0 THEN Some(json.n) ELSE None

\* Result<T, E>
Ok(v) == [t |-> "Ok", v |-> v]
Err(e) == [t |-> "Err", v |-> e]

\* a fixed text of the source, kept whole
Text(t) == <<t>>

\* a serialized RequestPacket: a single request is a JSON object with id,
\* method and, unless the request's params serialize to nothing, params
\* (None when absent); a batch is a JSON array
Envelope(kind, id, method, params) ==
    [kind |-> kind, id |-> id, method |-> method, params |-> params]

\* alloy_json_rpc::Id: Number, String
RequestIds == {JsNum(0), JsNum(7), JsStr(<<"a">>)}

Methods == {"eth_requestAccounts"}

ParamsOptions == {None, Some(JsArr(<<>>))}

Envelopes ==
    {Envelope("single", id, m, ps) : id \in RequestIds, m \in Methods, ps \in ParamsOptions}
    \cup {Envelope("batch", JsNull, "", None)}

\* the bytes of a signature, scaled down as the address is
SignatureBytes == 1
SignatureHexLen == 2 * SignatureBytes

\* str::parse::<Signature>: an optional "0x", then exactly SignatureHexLen
\* hex digits
ParseSignature(s) ==
    LET body == IF starts_with_0x(s) THEN SubSeq(s, 3, Len(s)) ELSE s IN
    IF Len(body) # SignatureHexLen THEN None
    ELSE IF \E k \in 1..Len(body) : ~IsHexDigit(body[k]) THEN None
    ELSE Some([k \in 1..SignatureHexLen |-> ToLowerHex(body[k])])

SignatureText == <<"0","x">> \o Rep("C", SignatureHexLen)

\* the provider object a transport holds: a wallet, an object without a
\* request function, an object whose request returns no promise
Handles == {"wallet", "noRequestFn", "notPromise"}

\* values a provider resolves its promise with
ProviderResults ==
    { JsStr(<<"0","x","1">>), JsStr(SignatureText), JsArr(<<>>), JsArr(<<JsUndef>>), JsUndef }

\* values a provider rejects its promise with
Rejections ==
    { JsErrObj(JsNum(4001), JsStr(<<"U","s","e","r"," ","r","e","j","e","c","t","e","d">>)),
      JsErrObj(JsNum(4902), JsStr(<<"c","h","a","i","n"," ","0","x","a","4"," ","?">>)),
      JsErrObj(JsNum(0 - 32603), JsUndef),                      \* a code, no message
      JsErrObj(JsStr(<<"4","0","0","1">>), JsStr(<<"n","o">>)), \* the code is a string
      JsStr(<<"n","o">>),
      JsUndef }

Resolve(value) == [t |-> "resolve", v |-> value]
Reject(carrier) == [t |-> "reject", v |-> carrier]
Outcomes == {Resolve(v) : v \in ProviderResults} \cup {Reject(e) : e \in Rejections}

\* JSON.stringify then serde_json::from_str: the JSON value of a JsValue.
\* undefined has no JSON text (None); inside an array it becomes null.
RECURSIVE ToJson(_)
ToJson(value) ==
    IF value.t = "undef" THEN JsNull
    ELSE IF value.t = "arr" THEN JsArr([k \in 1..Len(value.v) |-> ToJson(value.v[k])])
    ELSE value

JsonStringify(value) == IF value.t = "undef" THEN None ELSE Some(ToJson(value))

\* a future of the bridge or the signer awaiting the provider's promise:
\* the operation, the crate of the transport, the request it was called
\* with, the id it keeps for the response, the object passed to
\* ethereum.request, how many times ethereum.request was invoked, and what
\* an observer saw it do in order (a warning logged, the request made)
BridgeCall(op, bridge, req, id, sent, n) ==
    [op |-> op, bridge |-> bridge, req |-> req, id |-> id, sent |-> sent, n |-> n,
     log |-> IF n = 0 THEN <<>> ELSE <<"request">>]

\* request_raw from its start to the await of the promise, for a provider
\* object `handle`: how many times ethereum.request was invoked and the
\* error, if any, it returns before awaiting
RequestRawBegin(handle) ==
    IF handle = "noRequestFn" THEN [n |-> 0, err |-> Some(from_js_value(JsUndef))]
    ELSE IF handle = "notPromise" THEN [n |-> 1, err |-> Some(from_js_value(JsUndef))]
    ELSE [n |-> 1, err |-> None]

\* request_raw after the await: the JSON-RPC response built around the
\* result, or the error
RequestRawSettle(id, outcome) ==
    IF outcome.t = "reject" THEN Err(from_js_value(outcome.v))
    ELSE IF JsonStringify(outcome.v) = None
    THEN Err(SerializationError(Text("Failed to convert result to string")))
    ELSE Ok([jsonrpc |-> "2.0", id |-> JsNum(id), result |-> Unwrap(JsonStringify(outcome.v))])

\* Service::call of alloy-eip1193: the method, params and id it extracts
EnvelopeMethod(envelope) == IF envelope.kind = "single" THEN Some(envelope.method) ELSE None

EnvelopeParams(envelope) ==
    IF envelope.kind = "single" /\ envelope.params # None
    THEN Unwrap(envelope.params) ELSE JsArr(<<>>)

EnvelopeId(envelope) ==
    IF envelope.kind = "single" /\ as_u64(envelope.id) # None
    THEN Unwrap(as_u64(envelope.id)) ELSE 0

\* a bridge or signer future starts: it awaits the provider's promise
\* (early = None) or returns `early` without awaiting
Begin(c, handle, early) ==
    /\ BagCardinality(calls) < MaxCalls
    /\ calls' = IF early = None THEN calls (+) SetToBag({c}) ELSE calls
    /\ bridge_last' = [step |-> "begin", call |-> c, handle |-> handle,
                       outcome |-> None, res |-> early]
    /\ UNCHANGED <<conn_vars, rest_vars>>

\* the object given to ethereum.request, when it was invoked
Sent(n, method, params) ==
    IF n = 0 THEN None ELSE Some([method |-> method, params |-> params])

\* <Eip1193Transport as Service<RequestPacket>>::call of alloy-eip1193, to
\* the await in request_raw
TransportCall(req, handle) ==
    LET begin == RequestRawBegin(handle) IN
    IF EnvelopeMethod(req) = None
    THEN Begin(BridgeCall("call", "alloy-eip1193", req, 0, None, 0), handle,
               Some(Err(custom_str(Text("Missing method in request")))))
    ELSE Begin(BridgeCall("call", "alloy-eip1193", req, EnvelopeId(req),
                          Sent(begin.n, Unwrap(EnvelopeMethod(req)), EnvelopeParams(req)),
                          begin.n),
               handle,
               IF begin.err = None THEN None
               ELSE Some(Err(into_transport_error(Unwrap(begin.err)))))

\* the types a caller of request::<P, R> expects: R = String, R = Value
Shapes == {"String", "Value"}

\* serde_json::from_value::<R>
Deserialize(json, shape) ==
    IF shape = "Value" THEN Some(json)
    ELSE IF json.t = "str" THEN Some(json.v) ELSE None

\* Eip1193Transport::request of alloy-eip1193, to the await in request_raw;
\* the id it gives request_raw is 1
Request(method, params, shape, handle) ==
    LET begin == RequestRawBegin(handle) IN
    Begin(BridgeCall("request", "alloy-eip1193",
                     [method |-> method, params |-> params, shape |-> shape], 1,
                     Sent(begin.n, method, params), begin.n),
          handle,
          IF begin.err = None THEN None ELSE Some(Err(Unwrap(begin.err))))

\* Eip1193Transport::request after the await
RequestSettle(raw, shape) ==
    IF raw.t = "Err" THEN raw
    ELSE IF Deserialize(raw.v.result, shape) = None
    THEN Err(SerializationError(Text("Failed to deserialize response")))
    ELSE Ok(Unwrap(Deserialize(raw.v.result, shape)))

\* Eip1193Requester::request and request_raw of leptos-rainbowkit to their
\* await: the error is the JsValue
RequesterRawBegin(handle) ==
    IF handle = "noRequestFn" THEN [n |-> 0, err |-> Some(JsUndef)]
    ELSE IF handle = "notPromise" THEN [n |-> 1, err |-> Some(JsUndef)]
    ELSE [n |-> 1, err |-> None]

(* ========================= signer (signer.rs) ========================== *)

\* impl Signer / TxSigner for Eip1193Signer
SignOps == {"sign_hash", "sign_message", "sign_dynamic_typed_data", "sign_transaction"}

\* the signer's configured address, as format!("{:?}", self.address) writes it
SignerAddressText == <<"0","x">> \o AddrA

\* the crates that hold an Eip1193Signer
SignerCrates == {"alloy-eip1193", "leptos-rainbowkit"}

\* the RPC method of each operation; sign_transaction delegates to
\* sign_hash, sign_transaction_from to sign_transaction
SignMethod(op) ==
    CASE op = "sign_hash" -> "eth_sign"
      [] op = "sign_message" -> "personal_sign"
      [] op = "sign_dynamic_typed_data" -> "eth_signTypedData_v4"
      [] op \in {"sign_transaction", "sign_transaction_from"} -> "eth_sign"

\* hex::encode: two lower-case digits for each byte
RECURSIVE hex_encode(_)
hex_encode(bytes) ==
    IF bytes = <<>> THEN <<>>
    ELSE <<HexLower[(Head(bytes) \div 16) + 1], HexLower[(Head(bytes) % 16) + 1]>>
         \o hex_encode(Tail(bytes))

\* format!("0x{}", hex::encode(bytes))
HexText(bytes) == <<"0","x">> \o hex_encode(bytes)

\* the hashes, messages, typed data and transactions given to the signer
\* (a hash is shown by its first two bytes)
Hashes == {<<0, 255>>, <<18, 52>>}
SignableMessages == {<<104, 105>>}
TypedDatas == {"Permit"}
Transactions == {"transfer"}

\* serde_json::to_value(payload) of a TypedData
TypedDataJson(payload) == [t |-> "typedData", v |-> payload]

\* keccak256 of tx.encode_for_signing
TxSigningHash(tx) == IF tx = "transfer" THEN <<171, 205>> ELSE <<1, 2>>

PayloadsOf(op) ==
    CASE op = "sign_hash" -> Hashes
      [] op = "sign_message" -> SignableMessages
      [] op = "sign_dynamic_typed_data" -> TypedDatas
      [] op \in {"sign_transaction", "sign_transaction_from"} -> Transactions

\* a params tuple that names the address first in every operation
SignParams_AddressFirst(op, payload) ==
    CASE op = "sign_hash" -> JsArr(<<JsStr(SignerAddressText), JsStr(HexText(payload))>>)
      [] op = "sign_message" -> JsArr(<<JsStr(SignerAddressText), JsStr(HexText(payload))>>)
      [] op = "sign_dynamic_typed_data" ->
            JsArr(<<JsStr(SignerAddressText), TypedDataJson(payload)>>)
      [] op \in {"sign_transaction", "sign_transaction_from"} ->
            JsArr(<<JsStr(SignerAddressText), JsStr(HexText(TxSigningHash(payload)))>>)

\* the params tuple of each operation, serialized as a JSON array
SignParams(op, payload) ==
    CASE op = "sign_hash" -> JsArr(<<JsStr(SignerAddressText), JsStr(HexText(payload))>>)
      [] op = "sign_message" -> JsArr(<<JsStr(HexText(payload)), JsStr(SignerAddressText)>>)
      [] op = "sign_dynamic_typed_data" ->
            JsArr(<<JsStr(SignerAddressText), TypedDataJson(payload)>>)
      [] op \in {"sign_transaction", "sign_transaction_from"} ->
            JsArr(<<JsStr(SignerAddressText), JsStr(HexText(TxSigningHash(payload)))>>)

\* alloy::signers::Error::other(format!("<text>: {:?}", source))
SignerError(text, source) == [kind |-> "Other", text |-> Text(text), source |-> source]

SignFailedText(op) ==
    CASE op = "sign_message" -> "Sign message failed"
      [] op = "sign_dynamic_typed_data" -> "Sign typed data failed"
      [] OTHER -> "Sign hash failed"

\* what a signing operation logs before it builds its request: the
\* log::warn! of sign_transaction in alloy-eip1193
SignerLog(crate, op) ==
    IF crate = "alloy-eip1193" /\ op \in {"sign_transaction", "sign_transaction_from"}
    THEN <<"warn">>
    ELSE <<>>

\* a signing operation of the signer of `crate`, to the await of the
\* provider's promise.  The signer of alloy-eip1193 goes through
\* transport.request (id 1), that of leptos-rainbowkit through
\* Eip1193Requester::request.
SignerCall(crate, op, req, handle) ==
    LET begin == IF crate = "alloy-eip1193" THEN RequestRawBegin(handle)
                 ELSE RequesterRawBegin(handle)
        c == BridgeCall(op, crate, req, IF crate = "alloy-eip1193" THEN 1 ELSE 0,
                        Sent(begin.n, req.method, req.params), begin.n) IN
    Begin([c EXCEPT !.log = SignerLog(crate, op) \o @],
          handle,
          IF begin.err = None THEN None
          ELSE Some(Err(SignerError(SignFailedText(op), Unwrap(begin.err)))))

\* sign_hash, sign_message, sign_dynamic_typed_data, sign_transaction
SignWith(crate, op, payload, handle) ==
    SignerCall(crate, op,
               [method |-> SignMethod(op), params |-> SignParams(op, payload),
                shape |-> "String", payload |-> payload],
               handle)

\* a signing operation of the signer of alloy-eip1193
Sign(op, handle) == SignWith("alloy-eip1193", op, CHOOSE p \in PayloadsOf(op) : TRUE, handle)

\* the addresses a transaction is said to be from: the signer's and another
Senders == {AddrA, AddrB}

MismatchText(crate) ==
    IF crate = "alloy-eip1193" THEN "Sender {} does not match signer address {}"
    ELSE "Sender address does not match signer address"

\* NetworkWallet::sign_transaction_from without the check of the sender
sign_transaction_from_NoSenderCheck(crate, sender, tx, handle) ==
    SignerCall(crate, "sign_transaction_from",
               [method |-> SignMethod("sign_transaction_from"),
                params |-> SignParams("sign_transaction_from", tx),
                shape |-> "String", payload |-> tx, sender |-> sender],
               handle)

\* NetworkWallet::sign_transaction_from, to its return or to the await
sign_transaction_from(crate, sender, tx, handle) ==
    IF sender # AddrA
    THEN Begin(BridgeCall("sign_transaction_from", crate, [payload |-> tx, sender |-> sender],
                          0, None, 0),
               handle,
               Some(Err(SignerError(MismatchText(crate), None))))
    ELSE SignerCall(crate, "sign_transaction_from",
                    [method |-> SignMethod("sign_transaction_from"),
                     params |-> SignParams("sign_transaction_from", tx),
                     shape |-> "String", payload |-> tx, sender |-> sender],
                    handle)

\* tx.into_signed(signature).into(): the envelope sign_transaction_from returns
IntoSigned(c, r) ==
    IF c.op = "sign_transaction_from" /\ r.t = "Ok"
    THEN Ok([tx |-> c.req.payload, signature |-> r.v])
    ELSE r

\* a signing operation after transport.request returns
SignSettle(op, raw) ==
    LET r == RequestSettle(raw, "String") IN
    IF r.t = "Err" THEN Err(SignerError(SignFailedText(op), r.v))
    ELSE IF ParseSignature(r.v) = None
    THEN Err(SignerError("Failed to parse signature", r.v))
    ELSE Ok(Unwrap(ParseSignature(r.v)))

\* a signing operation of leptos-rainbowkit after requester.request returns
\* (the error of request is a JsValue)
RequesterSignSettle(op, outcome) ==
    IF outcome.t = "reject" THEN Err(SignerError(SignFailedText(op), outcome.v))
    ELSE IF Deserialize(outcome.v, "String") = None
    THEN Err(SignerError(SignFailedText(op), JsStr(Text("Failed to deserialize response"))))
    ELSE IF ParseSignature(Unwrap(Deserialize(outcome.v, "String"))) = None
    THEN Err(SignerError("Failed to parse signature", Unwrap(Deserialize(outcome.v, "String"))))
    ELSE Ok(Unwrap(ParseSignature(Unwrap(Deserialize(outcome.v, "String")))))

(* ============ transport of leptos-rainbowkit (provider/eip1193.rs) ===== *)

\* <Eip1193Transport as Service<RequestPacket>>::call of leptos-rainbowkit,
\* to the await in Eip1193Requester::request_raw
RainbowkitTransportCall(req, handle) ==
    LET begin == RequesterRawBegin(handle) IN
    IF EnvelopeMethod(req) = None
    THEN Begin(BridgeCall("call", "leptos-rainbowkit", req, 0, None, 0), handle,
               Some(Err(custom_str(Text("Missing method in request")))))
    ELSE IF req.params = None
    THEN Begin(BridgeCall("call", "leptos-rainbowkit", req, 0, None, 0), handle,
               Some(Err(custom_str(Text("Missing params in request")))))
    ELSE Begin(BridgeCall("call", "leptos-rainbowkit", req, 0,
                          Sent(begin.n, Unwrap(EnvelopeMethod(req)), Unwrap(req.params)),
                          begin.n),
               handle,
               IF begin.err = None THEN None
               ELSE Some(Err(custom_str(DebugFormat(Unwrap(begin.err))))))

\* serde_json::from_str::<ResponsePacket>: a JSON-RPC response object, or
\* an array of them (a batch).  No value of ProviderResults is a response
\* object; the empty array is the empty batch.
DeserializeResponsePacket(json) ==
    IF json.t = "arr" /\ Len(json.v) = 0 THEN Some(json) ELSE None

\* the same call after the await
RainbowkitCallSettle(outcome) ==
    IF outcome.t = "reject" THEN Err(custom_str(DebugFormat(outcome.v)))
    ELSE IF JsonStringify(outcome.v) = None
    THEN Err(custom_str(Text("Failed to stringify result")))
    ELSE IF DeserializeResponsePacket(Unwrap(JsonStringify(outcome.v))) = None
    THEN Err(custom_str(Text("invalid ResponsePacket")))
    ELSE Ok(Unwrap(DeserializeResponsePacket(Unwrap(JsonStringify(outcome.v)))))

(* ------------------------ the provider settles -------------------------- *)

\* what the future `c` returns when its promise settles with `outcome`
Complete(c, outcome) ==
    IF c.bridge = "leptos-rainbowkit"
    THEN IF c.op = "call" THEN RainbowkitCallSettle(outcome)
         ELSE IntoSigned(c, RequesterSignSettle(c.op, outcome))
    ELSE LET raw == RequestRawSettle(c.id, outcome) IN
         CASE c.op = "call" ->
                IF raw.t = "Err" THEN Err(into_transport_error(raw.v)) ELSE raw
           [] c.op = "request" -> RequestSettle(raw, c.req.shape)
           [] OTHER -> IntoSigned(c, SignSettle(c.op, raw))

\* a future that asks the provider again when its promise is rejected
ProviderSettles_RetriesOnRejection(c, outcome) ==
    /\ BagIn(c, calls)
    /\ IF outcome.t = "reject" /\ c.n < 2
       THEN /\ calls' = (calls (-) SetToBag({c})) (+) SetToBag({[c EXCEPT !.n = c.n + 1]})
            /\ bridge_last' = [step |-> "retry", call |-> [c EXCEPT !.n = c.n + 1],
                               outcome |-> Some(outcome), res |-> None]
       ELSE /\ calls' = calls (-) SetToBag({c})
            /\ bridge_last' = [step |-> "settle", call |-> c, outcome |-> Some(outcome),
                               res |-> Some(Complete(c, outcome))]
    /\ UNCHANGED <<conn_vars, rest_vars>>

\* the promise a future awaits settles, and the future runs to its return
ProviderSettles(c, outcome) ==
    /\ BagIn(c, calls)
    /\ calls' = calls (-) SetToBag({c})
    /\ bridge_last' = [step |-> "settle", call |-> c, outcome |-> Some(outcome),
                       res |-> Some(Complete(c, outcome))]
    /\ UNCHANGED <<conn_vars, rest_vars>>

RequestParams == {JsArr(<<>>), JsArr(<<JsStr(<<"0","x","1">>)>>)}

BridgeNext ==
    \/ \E req \in Envelopes, handle \in Handles : TransportCall(req, handle)
    \/ \E req \in Envelopes, handle \in Handles : RainbowkitTransportCall(req, handle)
    \/ \E method \in Methods, params \in RequestParams, shape \in Shapes, handle \in Handles :
          Request(method, params, shape, handle)
    \/ \E op \in SignOps, handle \in Handles : Sign(op, handle)
    \/ \E c \in BagToSet(calls), outcome \in Outcomes : ProviderSettles(c, outcome)

BridgeSpec == Init /\ [][BridgeNext]_vars

\* the signers of both crates on their own
SignerNext ==
    \/ \E crate \in SignerCrates, op \in SignOps, handle \in Handles :
          \E payload \in PayloadsOf(op) : SignWith(crate, op, payload, handle)
    \/ \E crate \in SignerCrates, sender \in Senders, tx \in Transactions, handle \in Handles :
          sign_transaction_from(crate, sender, tx, handle)
    \/ \E c \in BagToSet(calls), outcome \in Outcomes : ProviderSettles(c, outcome)

SignerSpec == Init /\ [][SignerNext]_vars

(* ------------------------- bridge properties --------------------------- *)

\* the step taken last is the return of a Service::call future of
\* alloy-eip1193 whose promise settled
CallSettled ==
    /\ bridge_last.step = "settle"
    /\ bridge_last.call.op = "call"
    /\ bridge_last.call.bridge = "alloy-eip1193"

Returns == Unwrap(bridge_last.res)

\* the id of a request other than the one answered, outstanding at the time
OtherRequestIds ==
    {c.req.id : c \in {d \in BagToSet(calls) : d.op = "call" /\ d.bridge = "alloy-eip1193"}}
        \ {bridge_last.call.req.id}

\* C16: with several envelope calls outstanding on one transport, each
\* successful response carries exactly the id of the request that produced
\* it, in whatever order the promises settle, and never the id of another
\* request.
C16_ResponseCarriesRequestId ==
    (CallSettled /\ Returns.t = "Ok")
        => /\ Returns.v.id = bridge_last.call.req.id
           /\ Returns.v.id \notin OtherRequestIds

\* C17: Service::call answers every request envelope with a JSON-RPC
\* response envelope carrying the request's id: {jsonrpc: "2.0", id, result}
\* when the provider resolves, an error envelope with that id when it
\* rejects.
C17_EveryRequestAnsweredWithEnvelope ==
    CallSettled
        => /\ Returns.t = "Ok"
           /\ Returns.v.jsonrpc = "2.0"
           /\ Returns.v.id = bridge_last.call.req.id
           /\ Unwrap(bridge_last.outcome).t = "resolve" => "result" \in DOMAIN Returns.v
           /\ Unwrap(bridge_last.outcome).t = "reject" => "error" \in DOMAIN Returns.v

\* C18: an inbound request envelope without params still reaches the
\* provider, with an empty array as params: given a wallet, the bridge
\* invokes ethereum.request and awaits it.
C18_AbsentParamsBecomeEmptyArray ==
    ( /\ bridge_last.step = "begin"
      /\ bridge_last.call.op = "call"
      /\ bridge_last.call.req.kind = "single"
      /\ bridge_last.call.req.params = None
      /\ bridge_last.handle = "wallet" )
        => /\ bridge_last.res = None
           /\ bridge_last.call.sent =
                  Some([method |-> bridge_last.call.req.method, params |-> JsArr(<<>>)])

\* C19: no retry: each bridge call and each signer operation invokes
\* ethereum.request at most once; when the provider rejects, the future
\* returns the error and is over, so no further request is issued for it.
C19_NoRetry ==
    [][ /\ \A c \in BagToSet(calls') : c.n <= 1
        /\ bridge_last'.step # "none" => bridge_last'.call.n <= 1
        /\ (bridge_last'.outcome # None /\ Unwrap(bridge_last'.outcome).t = "reject")
              => /\ bridge_last'.res # None
                 /\ Unwrap(bridge_last'.res).t = "Err"
                 /\ calls' = calls (-) SetToBag({bridge_last'.call})
      ]_vars

\* a signing operation was rejected by the provider after one request,
\* while another call is still outstanding
C19_Witness ==
    /\ bridge_last.step = "settle"
    /\ bridge_last.call.op = "sign_transaction"
    /\ Unwrap(bridge_last.outcome).t = "reject"
    /\ bridge_last.call.n = 1
    /\ Returns.t = "Err"
    /\ BagCardinality(calls) = 1

\* the text a rejected value without a numeric code is turned into
Stringified(carrier) == IF carrier.t = "str" THEN carrier.v ELSE DebugFormat(carrier)

UserRejectedCarrier ==
    JsErrObj(JsNum(4001), JsStr(<<"U","s","e","r"," ","r","e","j","e","c","t","e","d">>))

\* C20: a provider rejection is classified from the rejected value: an
\* object with a numeric code gives the caller of request()
\* from_code(code, message), so {code: 4001, message: "User rejected"} gives
\* UserRejectedRequest; a value without a numeric code gives JsError
\* holding the stringified value.
C20_RejectionIsClassified ==
    ( /\ bridge_last.step = "settle"
      /\ bridge_last.call.op = "request"
      /\ Unwrap(bridge_last.outcome).t = "reject" )
        => LET carrier == Unwrap(bridge_last.outcome).v IN
           /\ Returns.t = "Err"
           /\ (carrier.t = "obj" /\ carrier.code.t = "num" /\ carrier.message.t = "str")
                 => Returns.v = from_code(carrier.code.n, carrier.message.v)
           /\ carrier = UserRejectedCarrier => Returns.v = UserRejectedRequest
           /\ ~(carrier.t = "obj" /\ carrier.code.t = "num")
                 => Returns.v = JsError(Stringified(carrier))

\* request("eth_requestAccounts", []) was rejected with
\* {code: 4001, message: "User rejected"}
C20_Witness ==
    /\ bridge_last.step = "settle"
    /\ bridge_last.call.op = "request"
    /\ bridge_last.call.req.method = "eth_requestAccounts"
    /\ bridge_last.call.req.params = JsArr(<<>>)
    /\ bridge_last.outcome = Some(Reject(UserRejectedCarrier))

(* ============ error codes and their round trip (error.rs) ============= *)

\* Eip1193Error::code that reports no code for an unknown error
code_UnknownAsZero(err) ==
    CASE err.e = "UserRejectedRequest" -> 4001
      [] err.e = "Unauthorized" -> 4100
      [] err.e = "UnsupportedMethod" -> 4200
      [] err.e = "Disconnected" -> 4900
      [] err.e = "ChainDisconnected" -> 4901
      [] err.e = "UnrecognizedChain" -> 4902
      [] OTHER -> 0

\* Eip1193Error::code
code(err) ==
    CASE err.e = "UserRejectedRequest" -> 4001
      [] err.e = "Unauthorized" -> 4100
      [] err.e = "UnsupportedMethod" -> 4200
      [] err.e = "Disconnected" -> 4900
      [] err.e = "ChainDisconnected" -> 4901
      [] err.e = "UnrecognizedChain" -> 4902
      [] err.e = "UnknownError" -> err.code
      [] err.e \in {"JsError", "SerializationError"} -> 0

\* the codes EIP-1193 names
NamedCodes == {4001, 4100, 4200, 4900, 4901, 4902}

\* the codes the functions are applied to: the named ones, their
\* neighbours, a JSON-RPC code, zero and a negative one
Codes == NamedCodes \cup {0, 1, -1, 4000, 4002, 4903, -32603}

MsgEmpty == <<>>
MsgChain137 == <<"c","h","a","i","n"," ","1","3","7">>
MsgGarbage == <<"g","a","r","b","a","g","e">>
MsgUnrecognized0x7a69 == <<"U","n","r","e","c","o","g","n","i","z","e","d"," ","c","h","a","i","n"," ","0","x","7","a","6","9">>
MsgChain42161Missing == <<"c","h","a","i","n"," ","4","2","1","6","1"," ","m","i","s","s","i","n","g">>
MsgSpaces5 == <<" "," ","5"," ","\t">>
MsgTwoNumbers == <<"0","x","1","0"," ","t","h","e","n"," ","7">>
MsgBadHexThenNumber == <<"c","h","a","i","n"," ","0","x","z","z"," ","1","3","7">>
MsgUpperHex == <<"i","d"," ","0","X","A","4"," ","0","x","A","4">>
MsgTooLarge == <<"c","h","a","i","n"," ","1","8","4","4","6","7","4","4","0","7","3","7","0","9","5","5","1","6","1","6">>
MsgNumberFirst == <<"4","0","0","1"," ","i","s"," ","n","o","t"," ","l","a","s","t">>

\* the messages the functions are applied to
Messages ==
    {MsgEmpty, MsgChain137, MsgGarbage, MsgUnrecognized0x7a69, MsgChain42161Missing,
     MsgSpaces5, MsgTwoNumbers, MsgBadHexThenNumber, MsgUpperHex, MsgTooLarge,
     MsgNumberFirst}

\* what an application of a pure function leaves alone
Apply(fn, in, out) ==
    /\ applied' = [fn |-> fn, in |-> in, out |-> out]
    /\ UNCHANGED <<conn_vars, bridge_vars, active_account>>

\* Eip1193Error::from_code(code, message), then code() of what it returned
FromCode(c, m) ==
    Apply("from_code", [code |-> c, message |-> m],
          [err |-> from_code(c, m), code |-> code(from_code(c, m))])

\* the variant from_code must return for a named code
VariantOfCode(c) ==
    CASE c = 4001 -> "UserRejectedRequest"
      [] c = 4100 -> "Unauthorized"
      [] c = 4200 -> "UnsupportedMethod"
      [] c = 4900 -> "Disconnected"
      [] c = 4901 -> "ChainDisconnected"
      [] c = 4902 -> "UnrecognizedChain"

\* C21: from_code is total and code() inverts it on codes.  For every code c
\* and message m, from_code(c, m) returns an error whose code() is c; the
\* error is the variant EIP-1193 names for c when c is one of 4001, 4100,
\* 4200, 4900, 4901, 4902, two of these codes never giving the same variant,
\* and it is UnknownError(c, m) for every other code.
C21_CodeInvertsFromCode ==
    applied.fn = "from_code" =>
        LET c == applied.in.code
            m == applied.in.message
            err == applied.out.err IN
        /\ applied.out.code = c
        /\ c \in NamedCodes => err.e = VariantOfCode(c)
        /\ c \notin NamedCodes => err = UnknownError(c, m)
        /\ \A d \in NamedCodes \ {c} : c \in NamedCodes => VariantOfCode(d) # err.e

C21_Witness ==
    /\ applied.fn = "from_code"
    /\ applied.in.code = -32603
    /\ applied.in.message = MsgChain137
    /\ applied.out.err.e = "UnknownError"
    /\ applied.out.code = -32603

(* -------- wallet errors through the transport error (error.rs) -------- *)

\* the decimal text of a natural number, as "{}" formats a u64
RECURSIVE DecimalText(_)
DecimalText(n) ==
    IF n < 10 THEN <<HexLower[n + 1]>>
    ELSE Append(DecimalText(n \div 10), HexLower[(n % 10) + 1])


\* the Display of an Eip1193Error, from the #[error("...")] attributes.  The
\* codes of UnknownError the model formats are naturals or carry a sign.
Display(err) ==
    \* "User rejected the request"
    CASE err.e = "UserRejectedRequest" -> <<"U","s","e","r"," ","r","e","j","e","c","t","e","d"," ","t","h","e"," ","r","e","q","u","e","s","t">>
      \* "Unauthorized: "
      [] err.e = "Unauthorized" -> <<"U","n","a","u","t","h","o","r","i","z","e","d",":"," ">> \o err.message
      \* "Unsupported method: "
      [] err.e = "UnsupportedMethod" -> <<"U","n","s","u","p","p","o","r","t","e","d"," ","m","e","t","h","o","d",":"," ">> \o err.message
      \* "Provider disconnected from all chains"
      [] err.e = "Disconnected" -> <<"P","r","o","v","i","d","e","r"," ","d","i","s","c","o","n","n","e","c","t","e","d"," ","f","r","o","m"," ","a","l","l"," ","c","h","a","i","n","s">>
      \* "Provider not connected to requested chain: "
      [] err.e = "ChainDisconnected" -> <<"P","r","o","v","i","d","e","r"," ","n","o","t"," ","c","o","n","n","e","c","t","e","d"," ","t","o"," ","r","e","q","u","e","s","t","e","d"," ","c","h","a","i","n",":"," ">> \o DecimalText(err.chain)
      [] err.e = "UnrecognizedChain" ->
            \* "Chain ", " has not been added to the provider"
            <<"C","h","a","i","n"," ">> \o DecimalText(err.chain) \o <<" ","h","a","s"," ","n","o","t"," ","b","e","e","n"," ","a","d","d","e","d"," ","t","o"," ","t","h","e"," ","p","r","o","v","i","d","e","r">>
      \* "JavaScript error: "
      [] err.e = "JsError" -> <<"J","a","v","a","S","c","r","i","p","t"," ","e","r","r","o","r",":"," ">> \o err.message
      [] err.e = "UnknownError" ->
            \* "Error "
            <<"E","r","r","o","r"," ">>
            \o (IF err.code < 0 THEN <<"-">> \o DecimalText(0 - err.code)
                ELSE DecimalText(err.code))
            \o <<":", " ">> \o err.message
      \* "Serialization error: "
      [] err.e = "SerializationError" -> <<"S","e","r","i","a","l","i","z","a","t","i","o","n"," ","e","r","r","o","r",":"," ">> \o err.message

\* TransportError::to_string: a custom error displays as its source does,
\* a custom_str error as its text
to_string(err) ==
    IF err.kind = "Custom" THEN Display(err.source) ELSE err.text

\* str::contains(pattern)
contains(text, pattern) ==
    \E i \in 0..(Len(text) - Len(pattern)) :
        SubSeq(text, i + 1, i + Len(pattern)) = pattern

\* Eip1193Error::from_transport_error: Some(error) or None
from_transport_error(err) ==
    LET err_str == to_string(err) IN
    \* "User rejected", "4001"
    IF contains(err_str, <<"U","s","e","r"," ","r","e","j","e","c","t","e","d">>) \/ contains(err_str, <<"4","0","0","1">>)
    THEN Some(UserRejectedRequest)
    \* "4100", "Unauthorized"
    ELSE IF contains(err_str, <<"4","1","0","0">>) \/ contains(err_str, <<"U","n","a","u","t","h","o","r","i","z","e","d">>)
    THEN Some(Unauthorized(err_str))
    \* "4200", "Unsupported method"
    ELSE IF contains(err_str, <<"4","2","0","0">>) \/ contains(err_str, <<"U","n","s","u","p","p","o","r","t","e","d"," ","m","e","t","h","o","d">>)
    THEN Some(UnsupportedMethod(err_str))
    \* "4900", "Disconnected"
    ELSE IF contains(err_str, <<"4","9","0","0">>) \/ contains(err_str, <<"D","i","s","c","o","n","n","e","c","t","e","d">>)
    THEN Some(ProviderDisconnected)
    \* "4901", "not connected to requested chain"
    ELSE IF contains(err_str, <<"4","9","0","1">>) \/ contains(err_str, <<"n","o","t"," ","c","o","n","n","e","c","t","e","d"," ","t","o"," ","r","e","q","u","e","s","t","e","d"," ","c","h","a","i","n">>)
    THEN Some(ChainDisconnected(0))
    \* "4902", "Unrecognized chain"
    ELSE IF contains(err_str, <<"4","9","0","2">>) \/ contains(err_str, <<"U","n","r","e","c","o","g","n","i","z","e","d"," ","c","h","a","i","n">>)
    THEN Some(UnrecognizedChain(0))
    ELSE None

\* the chain ids the chain errors carry
ErrorChains == {0, 1, 137, 4001, 31337}

\* the named wallet errors
WalletErrors ==
    {UserRejectedRequest, ProviderDisconnected}
    \cup {Unauthorized(m) : m \in Messages}
    \cup {UnsupportedMethod(m) : m \in Messages}
    \cup {ChainDisconnected(n) : n \in ErrorChains}
    \cup {UnrecognizedChain(n) : n \in ErrorChains}

\* e.into_transport_error(), then Eip1193Error::from_transport_error
FromTransportError(e) ==
    Apply("from_transport_error", e, from_transport_error(into_transport_error(e)))

\* C22: wallet error codes round-trip through the transport error.  For
\* every named wallet error e, from_transport_error of e.into_transport_error()
\* is an error with the code of e.
C22_CodeSurvivesTransportError ==
    applied.fn = "from_transport_error" =>
        /\ applied.out # None
        /\ code(Unwrap(applied.out)) = code(applied.in)

\* a named error that does round-trip
C22_RoundTripSeen ==
    /\ applied.fn = "from_transport_error"
    /\ applied.in = ChainDisconnected(137)
    /\ applied.out = Some(ChainDisconnected(0))

\* the chain id each message holds for code 4901: its last token read as a
\* decimal integer, 0 where that token is not one (or there is none)
LastTokenDecimal ==
    (MsgEmpty :> 0) @@ (MsgChain137 :> 137) @@ (MsgGarbage :> 0)
    @@ (MsgUnrecognized0x7a69 :> 0) @@ (MsgChain42161Missing :> 0)
    @@ (MsgSpaces5 :> 5) @@ (MsgTwoNumbers :> 7) @@ (MsgBadHexThenNumber :> 137)
    @@ (MsgUpperHex :> 0) @@ (MsgTooLarge :> 0) @@ (MsgNumberFirst :> 0)

\* the chain id each message holds for code 4902: the value of its first
\* token that starts with 0x or is all digits, 0 where that token has no
\* value in a u64 (or there is none)
FirstHexOrDecimalToken ==
    (MsgEmpty :> 0) @@ (MsgChain137 :> 137) @@ (MsgGarbage :> 0)
    @@ (MsgUnrecognized0x7a69 :> 31337) @@ (MsgChain42161Missing :> 42161)
    @@ (MsgSpaces5 :> 5) @@ (MsgTwoNumbers :> 16) @@ (MsgBadHexThenNumber :> 0)
    @@ (MsgUpperHex :> 164) @@ (MsgTooLarge :> 0) @@ (MsgNumberFirst :> 4001)

\* C23: the chain id of the chain errors is taken from the message.
\* from_code(4901, m) is ChainDisconnected(n) with n the last white-space
\* delimited token of m read as a decimal integer, from_code(4902, m) is
\* UnrecognizedChain(n) with n the value of the first token that is
\* 0x-prefixed hexadecimal or all decimal digits; where no such value can be
\* parsed n is 0 and the named variant is returned all the same.
C23_ChainIdIsReadFromMessage ==
    applied.fn = "from_code" =>
        /\ applied.in.code = 4901 =>
              applied.out.err = ChainDisconnected(LastTokenDecimal[applied.in.message])
        /\ applied.in.code = 4902 =>
              applied.out.err = UnrecognizedChain(FirstHexOrDecimalToken[applied.in.message])

C23_Witness ==
    /\ applied.fn = "from_code"
    /\ applied.in.code = 4902
    /\ applied.in.message = MsgTwoNumbers
    /\ applied.out.err = UnrecognizedChain(16)

\* a 4901 message whose last token is no number
C23_WitnessDefault ==
    /\ applied.fn = "from_code"
    /\ applied.in.code = 4901
    /\ applied.in.message = MsgChain42161Missing
    /\ applied.out.err = ChainDisconnected(0)

ErrorNext == \/ \E c \in Codes, m \in Messages : FromCode(c, m)
                \/ \E e \in WalletErrors : FromTransportError(e)
ErrorSpec == Init /\ [][ErrorNext]_vars

(* ------------------------ properties of the signer --------------------- *)

SignerBegan(ops) == bridge_last.step = "begin" /\ bridge_last.call.op \in ops

\* C24: a transaction from another sender is refused before any request.
\* sign_transaction_from with a sender that is not the signer's configured
\* address returns a mismatch error, ethereum.request not having been
\* invoked and no request left awaiting the provider.
C24_SenderMismatchFailsBeforeRequest ==
    (SignerBegan({"sign_transaction_from"}) /\ bridge_last.call.req.sender # AddrA) =>
        /\ bridge_last.res # None
        /\ Returns = Err(SignerError(MismatchText(bridge_last.call.bridge), None))
        /\ bridge_last.call.n = 0
        /\ bridge_last.call.sent = None
        /\ bridge_last.call.log = <<>>
        /\ \A c \in BagToSet(calls) :
              c.op = "sign_transaction_from" => c.req.sender = AddrA

C24_Witness ==
    /\ SignerBegan({"sign_transaction_from"})
    /\ bridge_last.call.req.sender = AddrB
    /\ bridge_last.call.bridge = "leptos-rainbowkit"
    /\ bridge_last.handle = "wallet"
    /\ bridge_last.res # None

\* C25: each signing operation asks the provider with a fixed method and
\* a fixed order of parameters, the address being the signer's configured
\* one: sign_hash eth_sign (address, hashHex); sign_message personal_sign
\* (messageHex, address); sign_dynamic_typed_data eth_signTypedData_v4
\* (address, typedDataJson); sign_transaction eth_sign (address, hash of
\* the encoded transaction).
C25_SignRequestsAreFixed ==
    (SignerBegan(SignOps) /\ bridge_last.call.n > 0) =>
        LET c == bridge_last.call
            p == c.req.payload
            who == JsStr(<<"0","x">> \o AddrA)
            asked == Unwrap(c.sent) IN
        /\ c.n = 1
        /\ c.op = "sign_hash" =>
              asked = [method |-> "eth_sign", params |-> JsArr(<<who, JsStr(HexText(p))>>)]
        /\ c.op = "sign_message" =>
              asked = [method |-> "personal_sign", params |-> JsArr(<<JsStr(HexText(p)), who>>)]
        /\ c.op = "sign_dynamic_typed_data" =>
              asked = [method |-> "eth_signTypedData_v4",
                       params |-> JsArr(<<who, TypedDataJson(p)>>)]
        /\ c.op = "sign_transaction" =>
              asked = [method |-> "eth_sign",
                       params |-> JsArr(<<who, JsStr(HexText(TxSigningHash(p)))>>)]

C25_Witness ==
    /\ SignerBegan({"sign_message"})
    /\ bridge_last.handle = "wallet"
    /\ bridge_last.call.bridge = "alloy-eip1193"
    /\ bridge_last.call.sent =
          Some([method |-> "personal_sign",
                params |-> JsArr(<<JsStr(<<"0","x","6","8","6","9">>),
                                   JsStr(<<"0","x">> \o AddrA)>>)])
    /\ BagIn(bridge_last.call, calls)

\* C26: every sign-transaction operation emits a warning before its
\* eth_sign request is sent: no transaction is signed through eth_sign
\* without a warning logged first.
C26_WarningBeforeEthSign ==
    (SignerBegan({"sign_transaction", "sign_transaction_from"}) /\ bridge_last.call.n > 0) =>
        bridge_last.call.log = <<"warn", "request">>

\* the signer of alloy-eip1193 does warn first
C26_WarnedSeen ==
    /\ SignerBegan({"sign_transaction"})
    /\ bridge_last.call.bridge = "alloy-eip1193"
    /\ bridge_last.call.log = <<"warn", "request">>

(* =================== balances (nexum-kit utils/format.rs) ============== *)

\* 10u128.pow(n); the exponents of the model keep it far below u128::MAX
RECURSIVE Pow10(_)
Pow10(n) == IF n = 0 THEN 1 ELSE 10 * Pow10(n - 1)

\* "{:04}": the decimal text, padded with zeros on the left to four characters
ZeroPad4(n) ==
    LET text == DecimalText(n) IN
    IF Len(text) >= 4 THEN text ELSE Rep("0", 4 - Len(text)) \o text

\* a call that returned a string, and one that panicked
ReturnedText(text) == [t |-> "returned", v |-> text]
Panicked(why) == [t |-> "panicked", v |-> <<why>>]

\* the scale of the four displayed digits, a constant of format_balance
DisplayScale == 10000

\* format_balance(balance: u128, decimals: u8).  A division by zero panics
\* in every build.
format_balance(balance, decimals) ==
    IF balance = 0 THEN ReturnedText(<<"0", ".", "0", "0", "0", "0">>)
    ELSE LET divisor == Pow10(decimals)
             whole == balance \div divisor
             fractional == balance % divisor IN
         IF divisor \div DisplayScale = 0
         THEN Panicked("attempt to divide by zero")
         ELSE ReturnedText(DecimalText(whole) \o <<".">>
                       \o ZeroPad4(fractional \div (divisor \div DisplayScale)))

\* the decimals of the tokens and the balances formatted
Decimals == {0, 1, 2, 3, 4, 5, 6, 8}
Balances ==
    {0, 1, 5, 42, 999, 1234, 10000, 12345, 100000, 123400, 999999, 1000000, 1234567,
     1500000, 99999999, 1000000000}

FormatBalance(balance, decimals) ==
    Apply("format_balance", [balance |-> balance, decimals |-> decimals],
          format_balance(balance, decimals))

FormatNext == \E balance \in Balances, decimals \in Decimals : FormatBalance(balance, decimals)

FormatSpec == Init /\ [][FormatNext]_vars

\* the first four digits of the fraction balance / 10^decimals, truncated
FourFractionalDigits(balance, decimals) ==
    LET fractional == balance % Pow10(decimals) IN
    IF decimals >= 4 THEN fractional \div Pow10(decimals - 4)
    ELSE fractional * Pow10(4 - decimals)

\* C27: format_balance(balance, decimals) returns, for every balance and
\* every decimals (those below 4 too), the text "<whole>.<frac>" with whole
\* = balance div 10^decimals and frac the first four digits of the
\* fraction, truncated and padded with zeros to four; a zero balance gives
\* "0.0000".
C27_FormatBalanceIsWholeDotFourDigits ==
    applied.fn = "format_balance" =>
        LET b == applied.in.balance
            d == applied.in.decimals IN
        /\ applied.out.t = "returned"
        /\ applied.out.v = DecimalText(b \div Pow10(d)) \o <<".">>
                           \o ZeroPad4(FourFractionalDigits(b, d))

\* with four decimals or more the text is the one claimed
C27_ReturnedSeen ==
    /\ applied.fn = "format_balance"
    /\ applied.in = [balance |-> 1234567, decimals |-> 6]
    /\ applied.out = ReturnedText(<<"1", ".", "2", "3", "4", "5">>)

(* ============ connect() against disconnect() and the wallet ============ *)

\* connect() resumed after an await (ConnectBegin records its connector)
ConnectResumed == last'.op = "connect" /\ last'.arg.t = "undef"

\* C28: a connect() in flight when disconnect() completed does not undo the
\* disconnect.  When the connector call or the chain-id call of that
\* connect() resolves after the disconnect(), connect() publishes no
\* snapshot and does not set the status to Connected.
C28_InFlightConnectKeepsDisconnect ==
    [][(last.op = "disconnect" /\ ConnectResumed)
          => (status' # Connected /\ SnapshotUnchanged)]_vars

\* C29: the provider is the one of the snapshot.  In every reachable
\* state with status Connected, the signer of the provider is bound to the
\* address of the snapshot and the RPC endpoint of the provider is the one
\* registered for the chain id of the snapshot; accountsChanged and
\* chainChanged keep it so.
C29_ProviderMatchesSnapshot ==
    status = Connected =>
        /\ provider # None /\ address # None /\ chain_id # None
        /\ Unwrap(provider).signer = Unwrap(address)
        /\ Unwrap(chain_id) \in DOMAIN transports
        /\ Some(Unwrap(provider).url) = ParseUrl(transports[Unwrap(chain_id)])

\* a Connected state just after connect() returned, where the provider is
\* the one of the snapshot
C29_MatchAfterConnect ==
    /\ status = Connected
    /\ last.op = "connect" /\ last.res = "Ok"
    /\ provider = Some(WalletProvider(Unwrap(address),
                                      Unwrap(ParseUrl(transports[Unwrap(chain_id)]))))

\* the accounts the wallet can select
WalletAccounts == {AddrA, AddrB}

\* the accountsChanged payload of a wallet that selected account a
AccountsOf(a) == JsArr(<<JsStr(<<"0","x">> \o a)>>)

\* the user selects another account in the wallet.  The wallet emits
\* accountsChanged to the closures subscribed at that moment, which run at
\* once; with none subscribed (setup_event_listeners has not run) nobody
\* hears the event.
WalletSwitchesAccount(a) ==
    /\ a # active_account
    /\ active_account' = a
    /\ IF listeners > 0
       THEN /\ Publish(AccountsChangedHandler(Snapshot, AccountsOf(a)))
            /\ Record("accountsChanged", AccountsOf(a), "")
       ELSE /\ Publish(Snapshot)
            /\ Record("accountsChanged", AccountsOf(a), "unheard")
    /\ UNCHANGED <<listeners, connects, bridge_vars, applied>>

\* connect() against a wallet whose connector returns the account selected
\* when it is asked
WalletNext ==
    \/ \E c \in Connectors : ConnectBegin(c)
    \/ \E f \in BagToSet(connects) : ConnectAfterConnector(f, Some(active_account), "wallet")
    \/ \E f \in BagToSet(connects), reply \in {None} \cup {Some(v) : v \in ChainIdReplies} :
          ConnectAfterChainId(f, reply)
    \/ Disconnect
    \/ \E a \in WalletAccounts : WalletSwitchesAccount(a)

WalletSpec == Init /\ [][WalletNext]_vars

\* C30: an account change during connect() is not lost.  If the wallet's
\* active account changes after the connector returned an address and
\* while connect() awaits the chain id, then once connect() has succeeded
\* (every event the wallet emitted having been delivered) the address of
\* the snapshot is the wallet's active account.
C30_ConnectEndsOnActiveAccount ==
    (last.op = "connect" /\ last.res = "Ok") => address = Some(active_account)

\* a connect() that succeeded with no account change in between
C30_QuietConnect ==
    /\ last.op = "connect" /\ last.res = "Ok"
    /\ address = Some(active_account)
    /\ active_account = AddrA

====
